---- MODULE Spec2Model ----
(***************************************************************************)
(* Client script static/app.js of classready: the slide player, the        *)
(* two-team game board and the PDF viewer, each an event-driven widget     *)
(* over its own closed-over state.  One step of the model is one run of    *)
(* an event handler up to its next suspension point (await), or the        *)
(* settlement of one promise the script is waiting on.                     *)
(***************************************************************************)
EXTENDS Integers, Sequences, FiniteSets, TLC

\* ---------------------------------------------------------------- bounds
MaxSlidePages == 4      \* longest slide deck explored
MaxQuestions  == 2      \* most game questions explored
MaxPosts      == 2      \* score POSTs issued per run (caps the request log)
MaxPdfPages   == 3      \* longest PDF explored
MaxTimers     == 1      \* pending fullscreen re-render timeouts

\* ------------------------------------------------------------ input sets
\* which embedded global the served page defines: window.__SLIDE__,
\* window.__GAME__ or window.__PDF_URL__
Widgets == {"slide", "game", "pdf"}
\* point values a question may carry (game.questions[i].points)
PointValues == {5, 10}
\* window.__SCORES__ as embedded by the server: absent/zero, or a resumed game
InitScores == {<<0, 0>>, <<10, 5>>}
\* JavaScript null for currentIndex (question indices are 0-based)
null == -1

VARIABLES
    widget,             \* which widget's global is present on this page
    uncaught,           \* an uncaught exception / unhandled rejection was raised
    listMissing,        \* the embedded object lacks its list (slide.pages / game.questions)
    \* ---- library_ratings table of the schema
    library_ratings,    \* rows [id, user_id, unit_id, rating]
    nextId,             \* next AUTOINCREMENT id
    sqlResult,          \* outcome of the last INSERT: none / ok / constraint
    \* ---- slide player (initSlidePlayer)
    slidePages,         \* slide.pages.length
    idx,                \* current slide index
    countText,          \* countEl text as <<current, total>>
    slidePrevDisabled,  \* prevBtn.disabled
    slideNextDisabled,  \* nextBtn.disabled
    nexts,              \* history: next() calls so far while only next() was called, else -1
    \* ---- game board (initGameBoard)
    questions,          \* game.questions as the sequence of their points
    scoreA, scoreB,     \* the two team scores
    shownA, shownB,     \* scoreAEl / scoreBEl text
    revealed,           \* set of revealed question indices
    currentIndex,       \* open question index or null
    modalShown,         \* qModal has class "show"
    cardDisabled,       \* indices whose grid button is disabled
    posts,              \* bodies of the score POSTs issued so far, in order
    fetches,            \* state of each issued POST: pending / ok / failed
    awardedA, awardedB, \* history: points awarded per team since the last reset
    baseA, baseB,       \* history: score each team held when that count began
    scored,             \* history: questions an award or skip was applied to since the last reset
    resetDeclined,      \* the last confirm() dialog of the reset button was declined
    \* ---- PDF viewer
    pdfPhase,           \* position of the viewer's async initialiser
    pdfDoc,             \* document handle loaded
    pageNum, totalPages, rendering,
    renders,            \* renderPage calls in flight: [num, stage]
    canvasPage,         \* page drawn on the canvas, 0 = blank
    pdfCount,           \* pageCountEl text as <<current, total>>
    pdfPrevDisabled, pdfNextDisabled,
    handlersInstalled,  \* navigation / resize / fullscreen handlers registered
    alerted,            \* the load-failure alert was raised
    fullscreen,         \* document.fullscreenElement is set
    timers              \* pending setTimeout(renderPage, 200) callbacks

dbVars    == <<library_ratings, nextId, sqlResult>>
pageVars  == <<widget, listMissing, dbVars>>
slideVars == <<slidePages, idx, countText, slidePrevDisabled, slideNextDisabled, nexts>>
gameLocal == <<scoreA, scoreB, shownA, shownB, revealed, currentIndex, modalShown, cardDisabled>>
gameNet   == <<posts, fetches>>
gameHist  == <<awardedA, awardedB, baseA, baseB, scored>>
gameVars  == <<questions, gameLocal, gameNet, gameHist, resetDeclined>>
pdfVars   == <<pdfPhase, pdfDoc, pageNum, totalPages, rendering, renders, canvasPage,
               pdfCount, pdfPrevDisabled, pdfNextDisabled, handlersInstalled,
               alerted, fullscreen, timers>>
vars == <<pageVars, uncaught, slideVars, gameVars, pdfVars>>

Max(a, b) == IF a >= b THEN a ELSE b
Min(a, b) == IF a <= b THEN a ELSE b

\* ============================================================ slide player

MaxNexts == 6           \* next() calls counted from page load

\* render whose next-button test compares with the page count, not the last index
render_lateDisable(i) ==
    IF listMissing
    THEN /\ uncaught' = TRUE
         /\ UNCHANGED <<countText, slidePrevDisabled, slideNextDisabled>>
    ELSE /\ countText' = <<i + 1, slidePages>>
         /\ slidePrevDisabled' = (i = 0)
         /\ slideNextDisabled' = (i = slidePages)
         /\ UNCHANGED uncaught

\* render(): counter text and boundary buttons for index i; reading
\* slide.pages.length throws when the list is missing
render(i) ==
    IF listMissing
    THEN /\ uncaught' = TRUE
         /\ UNCHANGED <<countText, slidePrevDisabled, slideNextDisabled>>
    ELSE /\ countText' = <<i + 1, slidePages>>
         /\ slidePrevDisabled' = (i = 0)
         /\ slideNextDisabled' = (i = slidePages - 1)
         /\ UNCHANGED uncaught

\* prev: idx = Math.max(0, idx - 1); render()
slidePrev ==
    /\ idx' = Max(0, idx - 1)
    /\ render(idx')

\* slideNext with the upper clamp left out
slideNext_noClamp ==
    /\ idx' = idx + 1
    /\ render(idx')

\* next: idx = Math.min(slide.pages.length - 1, idx + 1); render()
\* (with the list missing the argument of Math.min throws before idx is set)
slideNext ==
    IF listMissing
    THEN /\ uncaught' = TRUE
         /\ UNCHANGED <<idx, countText, slidePrevDisabled, slideNextDisabled>>
    ELSE /\ idx' = Min(slidePages - 1, idx + 1)
         /\ render(idx')

\* state of the slide player once initSlidePlayer has run on a deck of n pages
SlideInit(n) ==
    /\ slidePages = n
    /\ idx = 0
    /\ countText = <<1, n>>
    /\ slidePrevDisabled = TRUE
    /\ slideNextDisabled = (0 = n - 1)
    /\ nexts = 0

\* the slide player never ran: window.__SLIDE__ is absent
SlideInert ==
    /\ slidePages = 0
    /\ idx = 0
    /\ countText = <<0, 0>>
    /\ slidePrevDisabled = FALSE
    /\ slideNextDisabled = FALSE
    /\ nexts = 0

\* initSlidePlayer ran on an object without pages: the handlers were
\* registered, then the first render() threw before it wrote anything
SlideInitMissing ==
    /\ slidePages = 0
    /\ idx = 0
    /\ countText = <<0, 0>>
    /\ slidePrevDisabled = FALSE
    /\ slideNextDisabled = FALSE
    /\ nexts = 0

\* the slide player's click and keydown listeners are registered
slideListening == widget = "slide"

\* one more next() call in the history count
CountNext(n) == IF n = -1 \/ n >= MaxNexts THEN -1 ELSE n + 1

\* a disabled button dispatches no click event
SlidePrevClick ==
    /\ widget = "slide"
    /\ ~slidePrevDisabled
    /\ slidePrev
    /\ nexts' = -1
    /\ UNCHANGED <<pageVars, slidePages, gameVars, pdfVars>>

SlideNextClick ==
    /\ widget = "slide"
    /\ ~slideNextDisabled
    /\ slideNext
    /\ nexts' = CountNext(nexts)
    /\ UNCHANGED <<pageVars, slidePages, gameVars, pdfVars>>

\* window keydown: ArrowLeft / ArrowRight / Escape
SlideKeydown(key) ==
    /\ widget = "slide"
    /\ CASE key = "ArrowLeft"  -> slidePrev /\ nexts' = -1
         [] key = "ArrowRight" -> slideNext /\ nexts' = CountNext(nexts)
         [] OTHER              -> UNCHANGED <<idx, countText, slidePrevDisabled,
                                              slideNextDisabled, nexts, uncaught>>
    /\ UNCHANGED <<pageVars, slidePages, gameVars, pdfVars>>

Keys == {"ArrowLeft", "ArrowRight", "Escape"}

\* ============================================================== game board

QIndices == 0 .. (Len(questions) - 1)
\* game.questions[i].points for a 0-based index i
PointsOf(i) == questions[i + 1]

\* renderScores(): both score elements show the given scores
renderScores(a, b) ==
    /\ shownA' = a
    /\ shownB' = b

\* saveScores that sends the scores held before the handler ran
saveScores_stale(a, b) ==
    /\ posts' = Append(posts, [scoreA |-> scoreA, scoreB |-> scoreB])
    /\ fetches' = Append(fetches, "pending")

\* saveScores(): fetch is called synchronously with the scores as they are
\* at the call; the request is then in flight
saveScores(a, b) ==
    /\ posts' = Append(posts, [scoreA |-> a, scoreB |-> b])
    /\ fetches' = Append(fetches, "pending")

\* renderGrid that rebuilds every card enabled
renderGrid_allEnabled(rev) ==
    cardDisabled' = {}

\* renderGrid that tests the flag of the following index
renderGrid_shifted(rev) ==
    cardDisabled' = {i \in QIndices : (i + 1) \in rev}

\* renderGrid(): every card is rebuilt, disabled iff its index is revealed
renderGrid(rev) ==
    cardDisabled' = {i \in QIndices : i \in rev}

\* openModalFor(index)
openModalFor(index) ==
    /\ currentIndex' = index
    /\ modalShown' = TRUE

\* closeModalMarkRevealed that closes the overlay without marking the question
closeModalMarkRevealed_noMark ==
    /\ revealed' = revealed
    /\ modalShown' = FALSE
    /\ currentIndex' = null
    /\ renderGrid(revealed')

\* closeModalMarkRevealed()
closeModalMarkRevealed ==
    /\ revealed' = IF currentIndex # null THEN revealed \cup {currentIndex} ELSE revealed
    /\ modalShown' = FALSE
    /\ currentIndex' = null
    /\ renderGrid(revealed')

\* award that credits the other team
award_otherTeam(team, points) ==
    /\ scoreA' = IF team = "B" THEN scoreA + points ELSE scoreA
    /\ scoreB' = IF team = "A" THEN scoreB + points ELSE scoreB
    /\ renderScores(scoreA', scoreB')
    /\ saveScores(scoreA', scoreB')
    /\ closeModalMarkRevealed

\* award that saves the scores before adding the points
award_saveFirst(team, points) ==
    /\ saveScores(scoreA, scoreB)
    /\ scoreA' = IF team = "A" THEN scoreA + points ELSE scoreA
    /\ scoreB' = IF team = "B" THEN scoreB + points ELSE scoreB
    /\ renderScores(scoreA', scoreB')
    /\ closeModalMarkRevealed

\* award(team, pointsOrZero)
award(team, points) ==
    /\ scoreA' = IF team = "A" THEN scoreA + points ELSE scoreA
    /\ scoreB' = IF team = "B" THEN scoreB + points ELSE scoreB
    /\ renderScores(scoreA', scoreB')
    /\ saveScores(scoreA', scoreB')
    /\ closeModalMarkRevealed

\* reset that zeroes the scores but forgets the revealed flags
resetConfirmed_keepRevealed ==
    /\ scoreA' = 0
    /\ scoreB' = 0
    /\ revealed' = revealed
    /\ renderScores(scoreA', scoreB')
    /\ renderGrid(revealed')
    /\ saveScores(scoreA', scoreB')
    /\ UNCHANGED <<currentIndex, modalShown>>

\* body of the reset handler after the confirmation was accepted
resetConfirmed ==
    /\ scoreA' = 0
    /\ scoreB' = 0
    /\ revealed' = {}
    /\ renderScores(scoreA', scoreB')
    /\ renderGrid(revealed')
    /\ saveScores(scoreA', scoreB')
    /\ UNCHANGED <<currentIndex, modalShown>>

\* a catch handler that re-sends the failed request
saveScoresCatch_retry(k) ==
    /\ fetches' = Append([fetches EXCEPT ![k] = "failed"], "pending")
    /\ posts' = Append(posts, posts[k])
    /\ UNCHANGED uncaught

\* .catch(()=>{}) on the saveScores promise: the rejection is swallowed
saveScoresCatch(k) ==
    /\ fetches' = [fetches EXCEPT ![k] = "failed"]
    /\ UNCHANGED <<posts, uncaught>>

\* state of the game board once initGameBoard has run
GameInit(qs, sc) ==
    /\ questions = qs
    /\ scoreA = sc[1]
    /\ scoreB = sc[2]
    /\ shownA = sc[1]
    /\ shownB = sc[2]
    /\ revealed = {}
    /\ currentIndex = null
    /\ modalShown = FALSE
    /\ cardDisabled = {}
    /\ posts = <<>>
    /\ fetches = <<>>
    /\ awardedA = 0
    /\ awardedB = 0
    /\ baseA = sc[1]
    /\ baseB = sc[2]
    /\ scored = {}
    /\ resetDeclined = FALSE

\* the game board never ran: window.__GAME__ is absent
GameInert == GameInit(<<>>, <<0, 0>>)

\* the award and skip buttons are the content of the question overlay: they
\* can be clicked only while the overlay is shown
OverlayButtonsClickable == modalShown

\* click on card i of the grid (a disabled card dispatches no click)
CardClick(i) ==
    /\ widget = "game"
    /\ i \in QIndices
    /\ i \notin cardDisabled
    /\ openModalFor(i)
    /\ UNCHANGED <<pageVars, uncaught, slideVars, pdfVars, questions, resetDeclined, gameNet, gameHist,
                   scoreA, scoreB, shownA, shownB, revealed, cardDisabled>>

\* aCorrect / aWrong / bCorrect / bWrong click
AwardClick(team, correct) ==
    /\ widget = "game"
    /\ OverlayButtonsClickable
    /\ Len(posts) < MaxPosts
    /\ IF correct /\ currentIndex = null
       THEN \* game.questions[null].points throws a TypeError
            /\ uncaught' = TRUE
            /\ UNCHANGED <<gameLocal, gameNet, gameHist>>
       ELSE LET p == IF correct THEN PointsOf(currentIndex) ELSE 0 IN
            /\ award(team, p)
            /\ awardedA' = IF team = "A" THEN awardedA + p ELSE awardedA
            /\ awardedB' = IF team = "B" THEN awardedB + p ELSE awardedB
            /\ scored' = IF currentIndex # null THEN scored \cup {currentIndex} ELSE scored
            /\ UNCHANGED <<baseA, baseB, uncaught>>
    /\ UNCHANGED <<pageVars, slideVars, pdfVars, questions, resetDeclined>>

\* skipBtn click
SkipClick ==
    /\ widget = "game"
    /\ OverlayButtonsClickable
    /\ closeModalMarkRevealed
    /\ scored' = IF currentIndex # null THEN scored \cup {currentIndex} ELSE scored
    /\ UNCHANGED <<pageVars, uncaught, slideVars, pdfVars, questions, resetDeclined, gameNet,
                   awardedA, awardedB, baseA, baseB, scoreA, scoreB, shownA, shownB>>

\* the reset handler on a game object without questions: renderGrid throws
\* at game.questions.forEach, after the grid was emptied and before saveScores
resetConfirmedThrows ==
    /\ scoreA' = 0
    /\ scoreB' = 0
    /\ revealed' = {}
    /\ renderScores(scoreA', scoreB')
    /\ cardDisabled' = {}
    /\ uncaught' = TRUE
    /\ UNCHANGED <<currentIndex, modalShown, posts, fetches>>

\* a reset handler that resets whatever confirm() returned
resetHandler_noConfirm(ok) ==
    IF listMissing
    THEN resetConfirmedThrows
    ELSE resetConfirmed /\ UNCHANGED uncaught

\* the reset handler: confirm() first, the reset proper only if accepted
resetHandler(ok) ==
    IF ~ok
    THEN UNCHANGED <<gameLocal, gameNet, uncaught>>
    ELSE IF listMissing
    THEN resetConfirmedThrows
    ELSE resetConfirmed /\ UNCHANGED uncaught

\* resetGameBtn click; ok is the answer given to confirm()
ResetClick(ok) ==
    /\ widget = "game"
    /\ ok => Len(posts) < MaxPosts
    /\ resetHandler(ok)
    /\ resetDeclined' = ~ok
    /\ IF ok
       THEN /\ awardedA' = 0
            /\ awardedB' = 0
            /\ baseA' = 0
            /\ baseB' = 0
            /\ scored' = {}
       ELSE UNCHANGED gameHist
    /\ UNCHANGED <<pageVars, slideVars, pdfVars, questions>>

\* click on the overlay's backdrop: the document-level handler and the qModal
\* handler both only remove the class "show"
BackdropClick ==
    /\ widget = "game"
    /\ modalShown
    /\ modalShown' = FALSE
    /\ UNCHANGED <<pageVars, uncaught, slideVars, pdfVars, questions, resetDeclined, gameNet, gameHist,
                   scoreA, scoreB, shownA, shownB, revealed, currentIndex, cardDisabled>>

\* the server answered POST k: saveScores' await returns, nothing follows
FetchResolve(k) ==
    /\ widget = "game"
    /\ k \in 1 .. Len(fetches)
    /\ fetches[k] = "pending"
    /\ fetches' = [fetches EXCEPT ![k] = "ok"]
    /\ UNCHANGED <<pageVars, uncaught, slideVars, pdfVars, questions, resetDeclined, gameLocal, gameHist, posts>>

\* POST k failed: the promise rejects into the empty catch handler
FetchReject(k) ==
    /\ widget = "game"
    /\ k \in 1 .. Len(fetches)
    /\ fetches[k] = "pending"
    /\ saveScoresCatch(k)
    /\ UNCHANGED <<pageVars, slideVars, pdfVars, questions, resetDeclined, gameLocal, gameHist>>

\* ============================================================== PDF viewer

RemoveAt(seq, k) == [j \in 1 .. (Len(seq) - 1) |-> IF j < k THEN seq[j] ELSE seq[j + 1]]

\* setButtons() for page number p of t
setButtons(p, t) ==
    /\ pdfPrevDisabled' = (p <= 1)
    /\ pdfNextDisabled' = (p >= t)
    /\ pdfCount' = <<p, t>>

\* renderPage without the busy-flag test
renderPage_noBusy(num) ==
    IF ~pdfDoc'
    THEN UNCHANGED <<rendering, renders>>
    ELSE /\ rendering' = TRUE
         /\ renders' = Append(renders, [num |-> num, stage |-> "getPage"])

\* renderPage(num) up to its first await.  pdfDoc' is the handle as it is
\* when renderPage is called (the loader assigns it just before its call).
renderPage(num) ==
    IF ~pdfDoc' \/ rendering
    THEN UNCHANGED <<rendering, renders>>
    ELSE /\ rendering' = TRUE
         /\ renders' = Append(renders, [num |-> num, stage |-> "getPage"])

\* a catch block that alerts but falls through to the handler registration
loadCatch_noReturn ==
    /\ alerted' = TRUE
    /\ pdfPhase' = "failed"
    /\ handlersInstalled' = TRUE

\* catch block of the loader: console.error, alert, return
loadCatch ==
    /\ alerted' = TRUE
    /\ pdfPhase' = "failed"
    /\ UNCHANGED handlersInstalled

\* the loader got past the try block: every handler is registered
installHandlers ==
    /\ pdfPhase' = "ready"
    /\ handlersInstalled' = TRUE
    /\ UNCHANGED alerted

\* prevBtn.onclick
prevBtnOnclick ==
    IF pageNum <= 1
    THEN UNCHANGED <<pageNum, rendering, renders>>
    ELSE /\ pageNum' = pageNum - 1
         /\ renderPage(pageNum')

\* nextBtn.onclick
nextBtnOnclick ==
    IF pageNum >= totalPages
    THEN UNCHANGED <<pageNum, rendering, renders>>
    ELSE /\ pageNum' = pageNum + 1
         /\ renderPage(pageNum')

\* keydown handler whose ArrowRight branch lacks the upper bound test
pdfKeydown_noUpper(key) ==
    IF key = "ArrowLeft" /\ pageNum > 1
    THEN /\ pageNum' = pageNum - 1
         /\ renderPage(pageNum')
    ELSE IF key = "ArrowRight"
    THEN /\ pageNum' = pageNum + 1
         /\ renderPage(pageNum')
    ELSE UNCHANGED <<pageNum, rendering, renders>>

\* window keydown handler of the viewer
pdfKeydown(key) ==
    IF key = "ArrowLeft" /\ pageNum > 1
    THEN /\ pageNum' = pageNum - 1
         /\ renderPage(pageNum')
    ELSE IF key = "ArrowRight" /\ pageNum < totalPages
    THEN /\ pageNum' = pageNum + 1
         /\ renderPage(pageNum')
    ELSE UNCHANGED <<pageNum, rendering, renders>>

\* the viewer's initialiser is suspended in getDocument(url)
PdfInit ==
    /\ pdfPhase = "loading"
    /\ pdfDoc = FALSE
    /\ pageNum = 1
    /\ totalPages = 1
    /\ rendering = FALSE
    /\ renders = <<>>
    /\ canvasPage = 0
    /\ pdfCount = <<0, 0>>
    /\ pdfPrevDisabled = FALSE
    /\ pdfNextDisabled = FALSE
    /\ handlersInstalled = FALSE
    /\ alerted = FALSE
    /\ fullscreen = FALSE
    /\ timers = 0

\* the viewer never ran: window.__PDF_URL__ is absent
PdfInert ==
    /\ pdfPhase = "inert"
    /\ pdfDoc = FALSE
    /\ pageNum = 1
    /\ totalPages = 1
    /\ rendering = FALSE
    /\ renders = <<>>
    /\ canvasPage = 0
    /\ pdfCount = <<0, 0>>
    /\ pdfPrevDisabled = FALSE
    /\ pdfNextDisabled = FALSE
    /\ handlersInstalled = FALSE
    /\ alerted = FALSE
    /\ fullscreen = FALSE
    /\ timers = 0

\* getDocument resolves with a document of n pages; the loader runs on to
\* its await of the first renderPage
GetDocumentResolve(n) ==
    /\ widget = "pdf"
    /\ pdfPhase = "loading"
    /\ pdfDoc' = TRUE
    /\ totalPages' = n
    /\ setButtons(pageNum, totalPages')
    /\ renderPage(pageNum)
    /\ pdfPhase' = "firstRender"
    /\ UNCHANGED <<pageVars, uncaught, slideVars, gameVars, pageNum, canvasPage,
                   handlersInstalled, alerted, fullscreen, timers>>

\* getDocument rejects
GetDocumentReject ==
    /\ widget = "pdf"
    /\ pdfPhase = "loading"
    /\ loadCatch
    /\ UNCHANGED <<pageVars, uncaught, slideVars, gameVars, pdfDoc, pageNum, totalPages,
                   rendering, renders, canvasPage, pdfCount, pdfPrevDisabled,
                   pdfNextDisabled, fullscreen, timers>>

\* pdfDoc.getPage(num) resolves for render k: the canvas is resized (which
\* blanks it) and page.render starts
GetPageResolve(k) ==
    /\ widget = "pdf"
    /\ k \in 1 .. Len(renders)
    /\ renders[k].stage = "getPage"
    /\ renders' = [renders EXCEPT ![k].stage = "render"]
    /\ canvasPage' = 0
    /\ UNCHANGED <<pageVars, uncaught, slideVars, gameVars, pdfPhase, pdfDoc, pageNum,
                   totalPages, rendering, pdfCount, pdfPrevDisabled, pdfNextDisabled,
                   handlersInstalled, alerted, fullscreen, timers>>

\* page.render(...).promise resolves for render k: the busy flag is cleared
\* and setButtons runs; the loader, if it awaits this render, moves on
PageRenderResolve(k) ==
    /\ widget = "pdf"
    /\ k \in 1 .. Len(renders)
    /\ renders[k].stage = "render"
    /\ renders' = RemoveAt(renders, k)
    /\ canvasPage' = renders[k].num
    /\ rendering' = FALSE
    /\ setButtons(pageNum, totalPages)
    /\ IF pdfPhase = "firstRender"
       THEN installHandlers
       ELSE UNCHANGED <<pdfPhase, handlersInstalled, alerted>>
    /\ UNCHANGED <<pageVars, uncaught, slideVars, gameVars, pdfDoc, pageNum, totalPages,
                   fullscreen, timers>>

\* getPage or page.render rejects for render k: renderPage throws past the
\* line that clears the busy flag; the loader catches it, a handler does not
RenderReject(k) ==
    /\ widget = "pdf"
    /\ k \in 1 .. Len(renders)
    /\ renders' = RemoveAt(renders, k)
    /\ IF pdfPhase = "firstRender"
       THEN loadCatch /\ UNCHANGED uncaught
       ELSE uncaught' = TRUE /\ UNCHANGED <<pdfPhase, handlersInstalled, alerted>>
    /\ UNCHANGED <<pageVars, slideVars, gameVars, pdfDoc, pageNum, totalPages, rendering,
                   canvasPage, pdfCount, pdfPrevDisabled, pdfNextDisabled, fullscreen, timers>>

pdfFrame == <<pageVars, uncaught, slideVars, gameVars, pdfPhase, totalPages, canvasPage,
              pdfCount, pdfPrevDisabled, pdfNextDisabled, handlersInstalled, alerted>>

\* click on the viewer's prev button (a disabled button dispatches no click)
PdfPrevClick ==
    /\ widget = "pdf"
    /\ ~pdfPrevDisabled
    /\ pdfDoc' = pdfDoc
    /\ IF handlersInstalled THEN prevBtnOnclick ELSE UNCHANGED <<pageNum, rendering, renders>>
    /\ UNCHANGED <<pdfFrame, fullscreen, timers>>

PdfNextClick ==
    /\ widget = "pdf"
    /\ ~pdfNextDisabled
    /\ pdfDoc' = pdfDoc
    /\ IF handlersInstalled THEN nextBtnOnclick ELSE UNCHANGED <<pageNum, rendering, renders>>
    /\ UNCHANGED <<pdfFrame, fullscreen, timers>>

PdfKeydown(key) ==
    /\ widget = "pdf"
    /\ pdfDoc' = pdfDoc
    /\ IF handlersInstalled THEN pdfKeydown(key) ELSE UNCHANGED <<pageNum, rendering, renders>>
    /\ UNCHANGED <<pdfFrame, fullscreen, timers>>

\* window resize: renderPage(pageNum)
PdfResize ==
    /\ widget = "pdf"
    /\ pdfDoc' = pdfDoc
    /\ IF handlersInstalled THEN renderPage(pageNum) ELSE UNCHANGED <<rendering, renders>>
    /\ UNCHANGED <<pdfFrame, pageNum, fullscreen, timers>>

\* fsBtn.onclick: toggle fullscreen, then schedule a re-render in 200 ms;
\* ok tells whether the fullscreen request was granted
FsClick(ok) ==
    /\ widget = "pdf"
    /\ IF ~handlersInstalled
       THEN UNCHANGED <<fullscreen, timers, uncaught>>
       ELSE IF ok
       THEN /\ timers < MaxTimers
            /\ fullscreen' = ~fullscreen
            /\ timers' = timers + 1
            /\ UNCHANGED uncaught
       ELSE /\ uncaught' = TRUE
            /\ UNCHANGED <<fullscreen, timers>>
    /\ UNCHANGED <<pageVars, slideVars, gameVars, pdfPhase, pdfDoc, pageNum, totalPages,
                   rendering, renders, canvasPage, pdfCount, pdfPrevDisabled,
                   pdfNextDisabled, handlersInstalled, alerted>>

\* the 200 ms timeout fires: renderPage(pageNum)
TimerFire ==
    /\ widget = "pdf"
    /\ timers > 0
    /\ timers' = timers - 1
    /\ pdfDoc' = pdfDoc
    /\ renderPage(pageNum)
    /\ UNCHANGED <<pdfFrame, pageNum, fullscreen>>

\* =========================================================== specification

\* the game board's click listeners are registered
gameListening == widget = "game"

\* no INSERT has run on the ratings table
RatingsEmpty ==
    /\ library_ratings = {}
    /\ nextId = 1
    /\ sqlResult = "none"

\* ============================================================ ratings table

MaxUsers == 2           \* users that rate
Users == 1 .. MaxUsers
Units == {1, 2}
\* rating values tried (the column holds 1 to 5 stars)
RatingValues == {1, 5}

\* the table without its UNIQUE constraint
uniqueViolation_none(u, n) == FALSE

\* UNIQUE(user_id, unit_id): a row for this pair already exists
uniqueViolation(u, n) ==
    \E row \in library_ratings : row.user_id = u /\ row.unit_id = n

\* INSERT INTO library_ratings (user_id, unit_id, rating) VALUES (u, n, r):
\* aborted by the UNIQUE constraint, or stored under the next id
InsertRating(u, n, r) ==
    /\ widget = "none"
    /\ IF uniqueViolation(u, n)
       THEN /\ sqlResult' = "constraint"
            /\ UNCHANGED <<library_ratings, nextId>>
       ELSE /\ library_ratings' = library_ratings \cup
                    {[id |-> nextId, user_id |-> u, unit_id |-> n, rating |-> r]}
            /\ nextId' = nextId + 1
            /\ sqlResult' = "ok"
    /\ UNCHANGED <<widget, listMissing, uncaught, slideVars, gameVars, pdfVars>>

\* a page without any widget; the table is empty
InitRatings ==
    /\ widget = "none"
    /\ listMissing = FALSE
    /\ uncaught = FALSE
    /\ RatingsEmpty
    /\ SlideInert
    /\ GameInert
    /\ PdfInert

NextRatings ==
    \E u \in Users : \E n \in Units : \E r \in RatingValues : InsertRating(u, n, r)

\* inserts into library_ratings
SpecRatings == InitRatings /\ [][NextRatings]_vars

\* the page embeds one well-formed global
Init ==
    /\ widget \in Widgets
    /\ listMissing = FALSE
    /\ uncaught = FALSE
    /\ RatingsEmpty
    /\ IF widget = "slide"
       THEN \E n \in 0 .. MaxSlidePages : SlideInit(n)
       ELSE SlideInert
    /\ IF widget = "game"
       THEN \E n \in 1 .. MaxQuestions : \E qs \in [1 .. n -> PointValues] :
                \E sc \in InitScores : GameInit(qs, sc)
       ELSE GameInert
    /\ IF widget = "pdf" THEN PdfInit ELSE PdfInert

\* the page embeds a slide or game object that lacks its list
\* (window.__SLIDE__ = {} / window.__GAME__ = {}): the widget's handlers are
\* registered and its first render threw
InitMissing ==
    /\ widget \in {"slide", "game"}
    /\ listMissing = TRUE
    /\ uncaught = TRUE
    /\ RatingsEmpty
    /\ IF widget = "slide" THEN SlideInitMissing ELSE SlideInert
    /\ IF widget = "game"
       THEN \E sc \in InitScores : GameInit(<<>>, sc)
       ELSE GameInert
    /\ PdfInert

\* the page embeds a game object with an empty question list
InitEmptyGame ==
    /\ widget = "game"
    /\ listMissing = FALSE
    /\ uncaught = FALSE
    /\ RatingsEmpty
    /\ SlideInert
    /\ \E sc \in InitScores : GameInit(<<>>, sc)
    /\ PdfInert

\* every embedded state, well-formed or not
InitEmbedded == Init \/ InitMissing \/ InitEmptyGame

Next ==
    \/ SlidePrevClick
    \/ SlideNextClick
    \/ \E key \in Keys : SlideKeydown(key)
    \/ \E i \in 0 .. (MaxQuestions - 1) : CardClick(i)
    \/ \E team \in {"A", "B"} : \E correct \in BOOLEAN : AwardClick(team, correct)
    \/ SkipClick
    \/ \E ok \in BOOLEAN : ResetClick(ok)
    \/ BackdropClick
    \/ \E k \in 1 .. MaxPosts : FetchResolve(k)
    \/ \E k \in 1 .. MaxPosts : FetchReject(k)
    \/ \E n \in 1 .. MaxPdfPages : GetDocumentResolve(n)
    \/ GetDocumentReject
    \/ \E k \in 1 .. Len(renders) : GetPageResolve(k)
    \/ \E k \in 1 .. Len(renders) : PageRenderResolve(k)
    \/ \E k \in 1 .. Len(renders) : RenderReject(k)
    \/ PdfPrevClick
    \/ PdfNextClick
    \/ \E key \in Keys : PdfKeydown(key)
    \/ PdfResize
    \/ \E ok \in BOOLEAN : FsClick(ok)
    \/ TimerFire

Spec == Init /\ [][Next]_vars

\* the same script over every embedded state, malformed ones included
SpecEmbedded == InitEmbedded /\ [][Next]_vars

TypeOK ==
    /\ widget \in Widgets \cup {"none"}
    /\ idx \in -1 .. MaxSlidePages
    /\ currentIndex \in {null} \cup QIndices
    /\ revealed \subseteq QIndices
    /\ Len(posts) = Len(fetches)
    /\ pageNum \in Int

\* ================================================================== claims

\* ---- the award function ran (a click on a "correct" button with no
\* current question throws before it reaches award)
AwardHappens ==
    \E team \in {"A", "B"} : \E correct \in BOOLEAN :
        AwardClick(team, correct) /\ ~(correct /\ currentIndex = null)

\* C1 (as stated): each score is >= 0 and equals the sum of the points
\* awarded to that team since the last reset.
C1_ScoreIsAwardedSum ==
    widget = "game" =>
        /\ scoreA >= 0 /\ scoreB >= 0
        /\ scoreA = awardedA /\ scoreB = awardedB

\* C1 (amended): each score is >= 0 and equals the score the team held when
\* the count began (the embedded initial score while no reset has happened
\* since the page loaded, 0 after a reset) plus the sum of the points
\* awarded to that team since.
C1_ScoreIsBasePlusAwarded ==
    widget = "game" =>
        /\ scoreA >= 0 /\ scoreB >= 0
        /\ scoreA = baseA + awardedA /\ scoreB = baseB + awardedB

\* a resumed game (10/5 embedded) in which both teams were awarded points
C1_Witness ==
    /\ widget = "game"
    /\ baseA = 10 /\ baseB = 5
    /\ awardedA > 0 /\ awardedB > 0
    /\ scoreA = 10 + awardedA /\ scoreB = 5 + awardedB

\* C2: on a deck of at least one page the slide index stays within
\* [0, totalPages-1] after any sequence of next/prev clicks and arrow keys.
C2_SlideIndexInRange ==
    (widget = "slide" /\ slidePages >= 1) => idx \in 0 .. (slidePages - 1)

\* the last page of a three-page deck was reached, where next must clamp
C2_Witness ==
    /\ widget = "slide"
    /\ slidePages = 3
    /\ idx = 2
    /\ countText = <<3, 3>>
    /\ slideNextDisabled

PdfPrevRequest == PdfPrevClick \/ PdfKeydown("ArrowLeft")
PdfNextRequest == PdfNextClick \/ PdfKeydown("ArrowRight")

\* C3: the PDF page number is always in [1, totalPages]; a prev request at
\* page 1 and a next request at page totalPages change nothing and start no
\* render.
C3_PdfPageClamped ==
    /\ [](pageNum \in 1 .. totalPages)
    /\ [][ ((PdfPrevRequest /\ pageNum = 1) \/ (PdfNextRequest /\ pageNum = totalPages))
             => UNCHANGED vars ]_vars

\* the viewer stands on its last page with the next button still enabled,
\* so that a next request by button or key can arrive there
C3_Witness ==
    /\ handlersInstalled
    /\ totalPages = 3
    /\ pageNum = totalPages
    /\ ~pdfNextDisabled

\* C4: at most one render is in flight, and renderPage called while a render
\* is in flight (or the busy flag is set, or no document is loaded) starts
\* nothing and changes nothing.
C4_NoOverlappingRenders ==
    /\ [](Len(renders) <= 1 /\ (renders # <<>> => rendering))
    /\ [][ ((PdfResize \/ TimerFire) /\ (renders # <<>> \/ rendering \/ ~pdfDoc))
             => UNCHANGED <<pdfPhase, pdfDoc, pageNum, totalPages, rendering, renders,
                            canvasPage, pdfCount, pdfPrevDisabled, pdfNextDisabled>> ]_vars

\* a render is in flight while the handlers are live and a re-render
\* timeout is pending
C4_Witness ==
    /\ handlersInstalled
    /\ Len(renders) = 1
    /\ rendering
    /\ timers > 0

\* C5 (as stated): a prev/next request arriving while a render is in flight
\* starts no render and leaves the viewer's state, the page number included,
\* as it was.
C5_NavDroppedWhileRendering ==
    [][ (renders # <<>> /\ (PdfPrevClick \/ PdfNextClick \/ \E key \in Keys : PdfKeydown(key)))
          => UNCHANGED pdfVars ]_vars

\* C6: every revealed question has a disabled card, no card click opens a
\* revealed question, and a question leaves the revealed set only by a
\* confirmed reset.
C6_RevealedCannotOpen ==
    /\ [](revealed \subseteq cardDisabled)
    /\ [][ /\ \A i \in QIndices : CardClick(i) => i \notin revealed
           /\ ~(revealed \subseteq revealed') => ResetClick(TRUE) ]_vars

\* one of two questions is revealed and its card is the disabled one
C6_Witness ==
    /\ widget = "game"
    /\ Len(questions) = 2
    /\ revealed = {0}
    /\ cardDisabled = {0}
    /\ currentIndex = null

GameCleared ==
    /\ scoreA = 0 /\ scoreB = 0
    /\ shownA = 0 /\ shownB = 0
    /\ revealed = {}
    /\ cardDisabled = {}

\* C7: a confirmed reset leaves both scores 0 and no question revealed, and
\* it is atomic: any step that lowers a score or un-reveals a question is a
\* step that ends with both scores 0 and nothing revealed.
C7_ResetAtomic ==
    [][ (ResetClick(TRUE) \/ scoreA' < scoreA \/ scoreB' < scoreB \/ ~(revealed \subseteq revealed'))
          => GameCleared' ]_vars

\* a two-question game that stood at 10/5 has just been reset (the last POST
\* before the reset's carried 10/5, and only a reset lowers a score)
C7_Witness ==
    /\ widget = "game"
    /\ Len(posts) = 2
    /\ posts[1] = [scoreA |-> 10, scoreB |-> 5]
    /\ posts[2] = [scoreA |-> 0, scoreB |-> 0]
    /\ Len(questions) = 2
    /\ GameCleared

\* C8: every award and every confirmed reset issues exactly one POST, whose
\* body is the pair of scores as that action left them.
C8_OnePostPerAction ==
    [][ (AwardHappens \/ ResetClick(TRUE))
          => /\ Len(posts') = Len(posts) + 1
             /\ SubSeq(posts', 1, Len(posts)) = posts
             /\ posts'[Len(posts')] = [scoreA |-> scoreA', scoreB |-> scoreB']
             /\ Len(fetches') = Len(fetches) + 1 ]_vars

\* one 10-point question answered correctly by team A from 0/0
C8_Witness ==
    /\ widget = "game"
    /\ questions = <<10>>
    /\ posts = <<[scoreA |-> 10, scoreB |-> 0]>>
    /\ scoreA = 10 /\ scoreB = 0
    /\ revealed = {0}
    /\ awardedA = 10

\* C9: a failed score POST changes nothing but the request's own state
\* (just as a successful one does), raises no error, and POSTs are issued
\* by awards and confirmed resets only, so none is retried or replayed.
C9_FailedPostIgnored ==
    [][ /\ \A k \in 1 .. Len(fetches) :
              (FetchReject(k) \/ FetchResolve(k))
                  => /\ UNCHANGED <<gameLocal, posts, uncaught>>
                     /\ Len(fetches') = Len(fetches)
                     /\ \A j \in 1 .. Len(fetches) : j # k => fetches'[j] = fetches[j]
        /\ posts' # posts => (AwardHappens \/ ResetClick(TRUE)) ]_vars

\* the POST of an award that scored points has failed
C9_Witness ==
    /\ widget = "game"
    /\ ~uncaught
    /\ \E k \in 1 .. Len(fetches) :
          /\ fetches[k] = "failed"
          /\ posts[k].scoreA > 0
          /\ scoreA = posts[k].scoreA /\ scoreB = posts[k].scoreB
          /\ Len(posts) = k
    /\ revealed # {}

\* C10: a load failure (getDocument, or the first render, rejecting inside
\* the loader's try block) raises the alert and installs no handler; once
\* alerted, no step changes the page number or the renders in flight.
C10_LoadFailureAborts ==
    /\ [](alerted => (~handlersInstalled /\ pdfPhase = "failed"))
    /\ [][ /\ (GetDocumentReject \/ (pdfPhase = "firstRender" /\ \E k \in 1 .. Len(renders) : RenderReject(k)))
              => alerted'
           /\ alerted => (alerted' /\ pageNum' = pageNum /\ renders' = renders /\ rendering' = rendering) ]_vars

\* getDocument has rejected: alert raised, no document, no handler
C10_Witness ==
    /\ widget = "pdf"
    /\ alerted
    /\ ~pdfDoc
    /\ pdfPhase = "failed"

\* C11 (as stated): a widget whose embedded state is missing or malformed
\* (no slide pages, no game questions, or no global at all) registers no
\* handler, renders nothing and raises no error.
C11_MalformedWidgetInert ==
    /\ (widget = "slide" /\ (listMissing \/ slidePages = 0))
          => (~slideListening /\ ~uncaught /\ countText = <<0, 0>>)
    /\ (widget = "game" /\ (listMissing \/ questions = <<>>))
          => (~gameListening /\ ~uncaught /\ cardDisabled = {})
    /\ widget # "slide" => ~slideListening
    /\ widget # "game" => ~gameListening

\* C12: library_ratings holds at most one row per (user_id, unit_id), and an
\* insert for a pair that already has a row is rejected and leaves the table
\* unchanged.
C12_RatingUniquePerUserUnit ==
    /\ [](\A r1, r2 \in library_ratings :
             (r1.user_id = r2.user_id /\ r1.unit_id = r2.unit_id) => r1 = r2)
    /\ [][ \A u \in Users : \A n \in Units : \A r \in RatingValues :
              (InsertRating(u, n, r) /\ uniqueViolation(u, n))
                  => (library_ratings' = library_ratings /\ sqlResult' = "constraint") ]_vars

\* a second rating for an already rated pair has just been rejected
C12_Witness ==
    /\ sqlResult = "constraint"
    /\ Cardinality(library_ratings) = 1
    /\ nextId = 2

SlideNextOp == SlideNextClick \/ SlideKeydown("ArrowRight")
SlidePrevOp == SlidePrevClick \/ SlideKeydown("ArrowLeft")

\* C13: on a deck of n >= 1 pages, k next() calls from index 0 land on
\* min(k, n-1); next at the last page and prev at index 0 change nothing;
\* after every operation the counter shows (index+1)/n, prev is disabled
\* exactly at index 0 and next exactly at index n-1.
C13_SlideClampAndDisplay ==
    /\ []((widget = "slide" /\ slidePages >= 1) =>
            /\ nexts >= 0 => idx = Min(nexts, slidePages - 1)
            /\ countText = <<idx + 1, slidePages>>
            /\ slidePrevDisabled = (idx = 0)
            /\ slideNextDisabled = (idx = slidePages - 1))
    /\ [][ (slidePages >= 1 /\ ((SlideNextOp /\ idx = slidePages - 1) \/ (SlidePrevOp /\ idx = 0)))
             => UNCHANGED <<idx, countText, slidePrevDisabled, slideNextDisabled>> ]_vars

\* three next() calls on a three-page deck: index 2, "3/3", next disabled
C13_Witness ==
    /\ widget = "slide"
    /\ slidePages = 3
    /\ nexts = 3
    /\ idx = 2
    /\ countText = <<3, 3>>
    /\ slideNextDisabled /\ ~slidePrevDisabled

\* C14: when the reset confirmation is declined, the scores, the revealed
\* set and the current question are unchanged and no POST is issued.
C14_DeclinedResetChangesNothing ==
    [][ ResetClick(FALSE) => UNCHANGED <<gameLocal, gameNet, gameHist, uncaught>> ]_vars

\* a reset was declined on a game with points scored and a card revealed
C14_Witness ==
    /\ widget = "game"
    /\ resetDeclined
    /\ scoreA > 0
    /\ revealed # {}
    /\ posts # <<>>

\* C15: skip on an open question closes the overlay, leaves no question
\* current, adds the question to the revealed set (its card disabled), and
\* changes no score and issues no POST.
C15_SkipRevealsWithoutScoring ==
    [][ (SkipClick /\ currentIndex # null) =>
          /\ ~modalShown'
          /\ currentIndex' = null
          /\ revealed' = revealed \cup {currentIndex}
          /\ currentIndex \in cardDisabled'
          /\ UNCHANGED <<scoreA, scoreB, shownA, shownB, posts, fetches>> ]_vars

\* question 0 was skipped: revealed, nothing posted, scores as loaded
C15_Witness ==
    /\ widget = "game"
    /\ revealed = {0}
    /\ scored = {0}
    /\ cardDisabled = {0}
    /\ posts = <<>>
    /\ currentIndex = null /\ ~modalShown
    /\ scoreA = baseA /\ scoreB = baseB

\* C16 (as stated): after load, whenever no render is in flight (and the
\* busy flag is clear), the page drawn on the canvas is the current page,
\* the one shown in the page counter.
C16_CanvasShowsCurrentPage ==
    (widget = "pdf" /\ handlersInstalled /\ renders = <<>> /\ ~rendering)
        => (canvasPage = pageNum /\ pdfCount = <<pageNum, totalPages>>)

\* C17 (as stated): every render that starts clears the busy flag by the
\* time it ends, whether it succeeded or failed: in the loaded viewer, once
\* no render is in flight the flag is false, so a later render request is
\* not dropped.
C17_BusyFlagCleared ==
    (widget = "pdf" /\ handlersInstalled /\ renders = <<>>) => ~rendering

\* C18 (as stated): the question overlay is shown exactly when a question
\* is current, whichever way the overlay was closed.
C18_OverlayIffCurrent ==
    widget = "game" => (modalShown <=> currentIndex # null)

C20_LastPostIsCurrent ==
    (widget = "game" /\ posts # <<>>)
        => posts[Len(posts)] = [scoreA |-> scoreA, scoreB |-> scoreB]

\* two POSTs with different bodies were issued; the later one carries the
\* scores now held
C20_Witness ==
    /\ widget = "game"
    /\ Len(posts) = 2
    /\ posts[1] # posts[2]
    /\ posts[2] = [scoreA |-> scoreA, scoreB |-> scoreB]
    /\ scoreA > 0 /\ scoreB > 0

====
